---- MODULE Spec2Model ----
(***************************************************************************)
(* Change classifier of scripts/breaking_changes: two code Reports are      *)
(* diffed into edit operations, and every edit is classified by the shape   *)
(* of its path into a feature entry or a breaking-change entry              *)
(* (change_log.py), over Reports laid out as code_report.py writes them.    *)
(***************************************************************************)
EXTENDS Integers, Sequences, FiniteSets, TLC

VARIABLES
    old_report,        \* first operand of build_change_log / ChangeLog._old_report
    new_report,        \* second operand / ChangeLog._new_report
    result,            \* edit operations of diff(old, new) not yet iterated
    diff_line,         \* the edit operation handed to a handler last (<<>>: none yet)
    features,          \* ChangeLog.features
    breaking_changes,  \* ChangeLog.breaking_changes
    pc,                \* "start", "loop", "done", "printed" or "raised"
    error,             \* the exception that ended the run, "none" otherwise
    driver,            \* who iterates the edits: build_change_log, or a direct caller
    md,                \* text returned by build_md (<<>> until rendered)
    argv,              \* <<base, latest>> operands of the command line (<<>>: none)
    package,           \* <<old, new>> versions of the package the operands name
    arguments,        \* arguments of the call of the extractor (<<>>: no call)
    environment,       \* what the extractor finds installed (<<>>: nothing)
    returned,          \* what the call of the extractor returned (<<>>: nothing yet)
    disk               \* files the extractor wrote, path -> document

vars == <<old_report, new_report, result, diff_line, features,
          breaking_changes, pc, error, driver, md, argv, package,
          arguments, environment, returned, disk>>

\* the state of a call of the extractor
extraction == <<arguments, environment, returned, disk>>

-----------------------------------------------------------------------------
(* Bounds of the model.                                                    *)

\* Longest parameter list of a function, method or operation.
MaxParams == 2

\* Most attributes recorded for one class.
MaxAttrs == 2

-----------------------------------------------------------------------------
(* JSON documents.  A document is the set of its nodes <<path, kind, val>>: *)
(* path is the sequence of keys from the root (a list position is the key   *)
(* "0", "1", ...), kind is "dict", "list", "str" or "bool", and val is the  *)
(* text of a scalar ("" for a container).                                   *)

Str(s) == {<< <<>>, "str", s >>}

Bool(b) == {<< <<>>, "bool", IF b THEN "true" ELSE "false" >>}

Under(k, T) == {<< <<k>> \o n[1], n[2], n[3] >> : n \in T}

Dict(f) == {<< <<>>, "dict", "" >>} \cup UNION {Under(k, f[k]) : k \in DOMAIN f}

Index == <<"0", "1", "2", "3", "4">>

List(s) == {<< <<>>, "list", "" >>} \cup UNION {Under(Index[i], s[i]) : i \in DOMAIN s}

Root(T) == CHOOSE n \in T : n[1] = <<>>

Kind(T) == Root(T)[2]

Val(T) == Root(T)[3]

Keys(T) == {n[1][1] : n \in {x \in T : x[1] # <<>>}}

\* T[k]
Get(T, k) == {<< Tail(n[1]), n[2], n[3] >> : n \in {x \in T : x[1] # <<>> /\ x[1][1] = k}}

\* whether T[p[1]][p[2]]... can be evaluated (no KeyError)
HasPath(T, p) == \E n \in T : n[1] = p

\* T[p[1]][p[2]]...
GetPath(T, p) ==
    {<< SubSeq(n[1], Len(p) + 1, Len(n[1])), n[2], n[3] >> :
        n \in {x \in T : Len(x[1]) >= Len(p) /\ SubSeq(x[1], 1, Len(p)) = p}}

\* some enumeration of a finite set, as a sequence
RECURSIVE SetToSeq(_)
SetToSeq(S) ==
    IF S = {} THEN <<>>
    ELSE LET x == CHOOSE y \in S : TRUE IN <<x>> \o SetToSeq(S \ {x})

-----------------------------------------------------------------------------
(* The tree diff (json_delta.diff, an external library: its contract is     *)
(* section 4.2 of the specification).  An edit operation is <<path>> for a  *)
(* deletion and <<path, value>> for an added or changed value.  Two         *)
(* containers of the same kind that have a member key in common are         *)
(* compared member by member; any other two values that differ have nothing *)
(* to align, and the new value replaces the old one as a whole: that is the *)
(* edit of something that "has changed a lot" which change_log.py:106 and   *)
(* :154 provide for.                                                        *)

structure_worth_investigating(left_struc, right_struc) ==
    /\ Kind(left_struc) = Kind(right_struc)
    /\ Kind(left_struc) \in {"dict", "list"}
    /\ Keys(left_struc) \cap Keys(right_struc) # {}

RECURSIVE diff(_, _, _)
diff(left_struc, right_struc, key) ==
    IF left_struc = right_struc THEN {}
    ELSE IF ~structure_worth_investigating(left_struc, right_struc)
    THEN {<<key, right_struc>>}
    ELSE LET l == Keys(left_struc)
             r == Keys(right_struc)
         IN  {<<Append(key, k)>> : k \in l \ r}
               \cup {<<Append(key, k), Get(right_struc, k)>> : k \in r \ l}
               \cup UNION {diff(Get(left_struc, k), Get(right_struc, k), Append(key, k)) :
                              k \in l \cap r}

-----------------------------------------------------------------------------
(* Text.  A string is the sequence of its pieces; "{}" is a placeholder of  *)
(* a template, and str.format fills the placeholders from left to right.    *)

RECURSIVE Format(_, _)
Format(template, args) ==
    IF template = <<>> THEN <<>>
    ELSE IF Head(template) = "{}"
         THEN Head(args) \o Format(Tail(template), Tail(args))
         ELSE <<Head(template)>> \o Format(Tail(template), args)

\* ", ".join(names)
RECURSIVE Join(_)
Join(names) ==
    IF names = <<>> THEN <<>>
    ELSE IF Len(names) = 1 THEN <<names[1]>>
    ELSE <<names[1], ", ">> \o Join(Tail(names))

_METHOD_SIGNATURE_CHANGE ==
    <<"Method ", "{}", " of ", "{}", " in module ", "{}", " has a different signature.">>
_ADD_METHOD == <<"Method ", "{}", " of ", "{}", " in module ", "{}", " is new.">>
_ADD_FUNCTION == <<"Function ", "{}", " in module ", "{}", " is new.">>
_ADD_CLASS == <<"Class ", "{}", " in module ", "{}", " is new.">>
_REMOVE_CLASS == <<"Class ", "{}", " in module ", "{}", " has been removed.">>
_ADD_CLASS_ATTR == <<"Attribute", "{}", " of class ", "{}", " in module ", "{}", " is new.">>
_REMOVE_CLASS_ATTR ==
    <<"Attribute ", "{}", " of class ", "{}", " in module has been removed.">>
_ADD_OPERATION_GROUP == <<"Added operation group ", "{}">>
_ADD_OPERATION == <<"Added operation ", "{}", ".", "{}">>
_MODEL_PARAM_ADD == <<"Model ", "{}", " has a new parameter ", "{}">>
_REMOVE_OPERATION_GROUP == <<"Removed operation group ", "{}">>
_REMOVE_OPERATION == <<"Removed operation ", "{}", ".", "{}">>
_SIGNATURE_CHANGE == <<"Operation ", "{}", ".", "{}", " has a new signature">>
_MODEL_SIGNATURE_CHANGE == <<"Model ", "{}", " has a new signature">>
_MODEL_PARAM_DELETE == <<"Model ", "{}", " no longer has parameter ", "{}">>
_MODEL_PARAM_ADD_REQUIRED == <<"Model ", "{}", " has a new required parameter ", "{}">>
_MODEL_PARAM_CHANGE_REQUIRED == <<"Parameter ", "{}", " of model ", "{}", " is now required">>

-----------------------------------------------------------------------------
(* class ChangeLog.  A handler maps the ChangeLog it is called on, cl =      *)
(* [features, breaking_changes, error], and a diff entry to the ChangeLog    *)
(* it leaves; error names the exception the handler raised, if any.  Python  *)
(* indexes from 0: d[4] of the source is d[5] here.                          *)

Name(s) == <<s>>

\* features recorded only while no breaking change has been found
AddFeature_before_breaking(cl, message) ==
    IF cl.breaking_changes = <<>> THEN [cl EXCEPT !.features = Append(@, message)] ELSE cl

AddFeature(cl, message) == [cl EXCEPT !.features = Append(@, message)]

AddBreaking(cl, message) == [cl EXCEPT !.breaking_changes = Append(@, message)]

Raise(cl, exception) == [cl EXCEPT !.error = exception]

\* bool(value)
Truthy(value) ==
    IF Kind(value) = "bool" THEN Val(value) = "true"
    ELSE IF Kind(value) = "str" THEN Val(value) # ""
    ELSE Keys(value) # {}

_unpack_diff_entry(diff_entry) == <<diff_entry[1], Len(diff_entry) = 1>>

rough_modified_method(cl, diff_entry) ==
    LET d == diff_entry[1] IN
    IF Len(d) = 5
    THEN AddFeature(cl, Format(_ADD_METHOD, <<Name(d[5]), Name(d[3]), Name(d[1])>>))
    ELSE IF Len(d) < 5
    THEN Raise(cl, "IndexError")
    ELSE AddBreaking(cl, Format(_METHOD_SIGNATURE_CHANGE,
                                <<Name(d[5]), Name(d[3]), Name(d[1])>>))

rough_modified_attributes(cl, diff_entry) ==
    LET d == diff_entry[1]
        is_deletion == _unpack_diff_entry(diff_entry)[2]
    IN
    IF ~is_deletion
    THEN LET value == diff_entry[2] IN
         IF Kind(value) = "dict"
         THEN AddFeature(cl, Format(_ADD_CLASS_ATTR,
                  << <<"s ">> \o Join(SetToSeq(Keys(value))) \o <<"\n  ">>,
                     Name(d[3]), Name(d[1]) >>))
         ELSE IF Kind(value) = "str"
         THEN AddFeature(cl, Format(_ADD_CLASS_ATTR,
                  << <<" ", Val(value)>>, Name(d[3]), Name(d[1]) >>))
         ELSE Raise(cl, "TypeError")
    ELSE \* diff_entry[1] of a one-element entry
         Raise(cl, "IndexError")

\* rough_new_class without the deletion test
rough_new_class_always_new(cl, diff_entry) ==
    LET d == diff_entry[1] IN
    AddFeature(cl, Format(_ADD_CLASS, <<Name(d[3]), Name(d[1])>>))

rough_new_class(cl, diff_entry) ==
    LET d == diff_entry[1]
        is_deletion == _unpack_diff_entry(diff_entry)[2]
    IN
    IF ~is_deletion
    THEN AddFeature(cl, Format(_ADD_CLASS, <<Name(d[3]), Name(d[1])>>))
    ELSE AddBreaking(cl, Format(_REMOVE_CLASS, <<Name(d[3]), Name(d[1])>>))

\* rough_new_function recording the function in both lists
rough_new_function_in_both(cl, diff_entry) ==
    LET d == diff_entry[1] IN
    AddBreaking(AddFeature(cl, Format(_ADD_FUNCTION, <<Name(d[3]), Name(d[1])>>)),
                Format(_ADD_FUNCTION, <<Name(d[3]), Name(d[1])>>))

rough_new_function(cl, diff_entry) ==
    LET d == diff_entry[1] IN
    AddFeature(cl, Format(_ADD_FUNCTION, <<Name(d[3]), Name(d[1])>>))

\* for x in names: lst.append(template.format(operation_name, x))
RECURSIVE AppendEach(_, _, _, _)
AppendEach(lst, template, operation_name, names) ==
    IF names = <<>> THEN lst
    ELSE AppendEach(Append(lst, Format(template, <<Name(operation_name), Name(Head(names))>>)),
                    template, operation_name, Tail(names))

\* the manual listing with the added operations left out
manual_operation_lists_removed_only(cl, operation_name) ==
    LET where == <<"operations", operation_name, "functions">> IN
    IF ~HasPath(old_report, where) \/ ~HasPath(new_report, where)
    THEN Raise(cl, "KeyError")
    ELSE LET old_ops_name == Keys(GetPath(old_report, where))
             new_ops_name == Keys(GetPath(new_report, where))
         IN [cl EXCEPT
               !.breaking_changes =
                   AppendEach(@, _REMOVE_OPERATION, operation_name,
                              SetToSeq(old_ops_name \ new_ops_name))]

\* "Compute the list manually": the name sets of the two function listings
manual_operation_lists(cl, operation_name) ==
    LET where == <<"operations", operation_name, "functions">> IN
    IF ~HasPath(old_report, where) \/ ~HasPath(new_report, where)
    THEN Raise(cl, "KeyError")
    ELSE LET old_ops_name == Keys(GetPath(old_report, where))
             new_ops_name == Keys(GetPath(new_report, where))
         IN [cl EXCEPT
               !.breaking_changes =
                   AppendEach(@, _REMOVE_OPERATION, operation_name,
                              SetToSeq(old_ops_name \ new_ops_name)),
               !.features =
                   AppendEach(@, _ADD_OPERATION, operation_name,
                              SetToSeq(new_ops_name \ old_ops_name))]

operation(cl, diff_entry) ==
    LET path == _unpack_diff_entry(diff_entry)[1]
        is_deletion == _unpack_diff_entry(diff_entry)[2]
    IN
    IF Len(path) < 2 THEN Raise(cl, "ValueError")
    ELSE
    LET operation_name == path[2]
        remaining_path == SubSeq(path, 3, Len(path))
    IN
    IF remaining_path = <<>>
    THEN IF is_deletion
         THEN AddBreaking(cl, Format(_REMOVE_OPERATION_GROUP, <<Name(operation_name)>>))
         ELSE AddFeature(cl, Format(_ADD_OPERATION_GROUP, <<Name(operation_name)>>))
    ELSE IF Tail(remaining_path) = <<>>
    THEN manual_operation_lists(cl, operation_name)
    ELSE
    LET function_name == remaining_path[2]
        rest == SubSeq(remaining_path, 3, Len(remaining_path))
    IN
    IF rest = <<>>
    THEN IF is_deletion
         THEN AddBreaking(cl, Format(_REMOVE_OPERATION,
                                     <<Name(operation_name), Name(function_name)>>))
         ELSE AddFeature(cl, Format(_ADD_OPERATION,
                                    <<Name(operation_name), Name(function_name)>>))
    ELSE IF rest[1] = "metadata"
    THEN cl
    ELSE AddBreaking(cl, Format(_SIGNATURE_CHANGE,
                                <<Name(operation_name), Name(function_name)>>))

\* the path is_required reads in a report
RequiredPath(model_name, param_name) ==
    <<"models", "models", model_name, "parameters", param_name, "properties", "required">>

\* is_required reading the readonly flag
is_required_reads_readonly(report, model_name, param_name) ==
    Truthy(GetPath(report, <<"models", "models", model_name, "parameters", param_name,
                             "properties", "readonly">>))

is_required(report, model_name, param_name) ==
    Truthy(GetPath(report, RequiredPath(model_name, param_name)))

\* models without the test of the category
models_any_category(cl, diff_entry) ==
    LET path == _unpack_diff_entry(diff_entry)[1]
        is_deletion == _unpack_diff_entry(diff_entry)[2]
    IN
    IF Len(path) < 2 THEN Raise(cl, "ValueError")
    ELSE IF Len(path) <= 3 THEN cl
    ELSE IF Len(path) = 4
    THEN AddBreaking(cl, Format(_MODEL_SIGNATURE_CHANGE, <<Name(path[3])>>))
    ELSE
    LET where == RequiredPath(path[3], path[5]) IN
    IF Len(path) = 5
    THEN IF is_deletion
         THEN AddBreaking(cl, Format(_MODEL_PARAM_DELETE, <<Name(path[3]), Name(path[5])>>))
         ELSE IF ~HasPath(new_report, where)
         THEN Raise(cl, "KeyError")
         ELSE IF is_required(new_report, path[3], path[5])
         THEN AddBreaking(cl, Format(_MODEL_PARAM_ADD_REQUIRED,
                                     <<Name(path[3]), Name(path[5])>>))
         ELSE AddFeature(cl, Format(_MODEL_PARAM_ADD, <<Name(path[3]), Name(path[5])>>))
    ELSE IF ~HasPath(new_report, where) \/ ~HasPath(old_report, where)
    THEN Raise(cl, "KeyError")
    ELSE IF is_required(new_report, path[3], path[5])
            /\ ~is_required(old_report, path[3], path[5])
    THEN AddBreaking(cl, Format(_MODEL_PARAM_CHANGE_REQUIRED,
                                <<Name(path[5]), Name(path[3])>>))
    ELSE cl

models(cl, diff_entry) ==
    LET path == _unpack_diff_entry(diff_entry)[1]
        is_deletion == _unpack_diff_entry(diff_entry)[2]
    IN
    IF Len(path) < 2 THEN Raise(cl, "ValueError")
    ELSE
    LET mtype == path[2] IN
    IF Len(path) = 2 THEN cl
    ELSE
    LET model_name == path[3] IN
    IF Len(path) = 3 THEN cl
    ELSE IF mtype \in {"enums", "exceptions"} THEN cl
    ELSE IF Len(path) = 4
    THEN AddBreaking(cl, Format(_MODEL_SIGNATURE_CHANGE, <<Name(model_name)>>))
    ELSE
    LET parameter_name == path[5]
        where == RequiredPath(model_name, parameter_name)
    IN
    IF Len(path) = 5
    THEN IF is_deletion
         THEN AddBreaking(cl, Format(_MODEL_PARAM_DELETE,
                                     <<Name(model_name), Name(parameter_name)>>))
         ELSE IF ~HasPath(new_report, where)
         THEN Raise(cl, "KeyError")
         ELSE IF is_required(new_report, model_name, parameter_name)
         THEN AddBreaking(cl, Format(_MODEL_PARAM_ADD_REQUIRED,
                                     <<Name(model_name), Name(parameter_name)>>))
         ELSE AddFeature(cl, Format(_MODEL_PARAM_ADD,
                                    <<Name(model_name), Name(parameter_name)>>))
    ELSE IF ~HasPath(new_report, where) \/ ~HasPath(old_report, where)
    THEN Raise(cl, "KeyError")
    ELSE IF is_required(new_report, model_name, parameter_name)
            /\ ~is_required(old_report, model_name, parameter_name)
    THEN AddBreaking(cl, Format(_MODEL_PARAM_CHANGE_REQUIRED,
                                <<Name(parameter_name), Name(model_name)>>))
    ELSE cl

\* "\n".join(buffer)
RECURSIVE JoinLines(_)
JoinLines(buffer) ==
    IF buffer = <<>> THEN <<>>
    ELSE IF Len(buffer) = 1 THEN buffer[1]
    ELSE buffer[1] \o <<"\n">> \o JoinLines(Tail(buffer))

Whitespace == {"\n", " ", ""}

RECURSIVE LStrip(_)
LStrip(text) ==
    IF text # <<>> /\ Head(text) \in Whitespace THEN LStrip(Tail(text)) ELSE text

RECURSIVE RStrip(_)
RStrip(text) ==
    IF text # <<>> /\ text[Len(text)] \in Whitespace
    THEN RStrip(SubSeq(text, 1, Len(text) - 1))
    ELSE text

\* strip() removing the leading whitespace only
Strip_leading_only(text) == LStrip(text)

\* str.strip()
Strip(text) == RStrip(LStrip(text))

\* ["- " + x for x in entries]
Bullets(entries) == [i \in DOMAIN entries |-> <<"- ">> \o entries[i]]

\* build_md without the tests for an empty list
build_md_headings_always(cl) ==
    Strip(JoinLines(<< <<"**Features**">>, <<>> >> \o Bullets(cl.features) \o << <<>> >>
                    \o << <<"**Breaking changes**">>, <<>> >>
                    \o Bullets(cl.breaking_changes)))

build_md(cl) ==
    LET feature_lines ==
            IF cl.features # <<>>
            THEN << <<"**Features**">>, <<>> >> \o Bullets(cl.features) \o << <<>> >>
            ELSE <<>>
        breaking_lines ==
            IF cl.breaking_changes # <<>>
            THEN << <<"**Breaking changes**">>, <<>> >> \o Bullets(cl.breaking_changes)
            ELSE <<>>
    IN Strip(JoinLines(feature_lines \o breaking_lines))

\* the loop body with an entry for the edits no branch matches
classify_unmatched_is_breaking(cl, entry) ==
    LET d == entry[1] IN
    IF Len(d) >= 4 /\ d[4] = "methods" THEN rough_modified_method(cl, entry)
    ELSE IF Len(d) = 3 /\ d[2] = "functions" THEN rough_new_function(cl, entry)
    ELSE IF Len(d) = 3 /\ d[2] = "classes" THEN rough_new_class(cl, entry)
    ELSE IF Len(d) >= 4 /\ d[4] = "attributes" THEN rough_modified_attributes(cl, entry)
    ELSE AddBreaking(cl, <<"Unknown change">>)

\* body of `for diff_line in result` of build_change_log
classify(cl, entry) ==
    LET d == entry[1] IN
    IF Len(d) >= 4 /\ d[4] = "methods" THEN rough_modified_method(cl, entry)
    ELSE IF Len(d) = 3 /\ d[2] = "functions" THEN rough_new_function(cl, entry)
    ELSE IF Len(d) = 3 /\ d[2] = "classes" THEN rough_new_class(cl, entry)
    ELSE IF Len(d) >= 4 /\ d[4] = "attributes" THEN rough_modified_attributes(cl, entry)
    ELSE cl

-----------------------------------------------------------------------------
(* Reports, laid out as code_report.py writes them.  A module's surface is   *)
(* described by five aspects, one per category of the Report.                *)

ParamNames == <<"width", "height", "depth", "angle">>

AttrNames == <<"color", "size", "shape", "label">>

ModuleName == "azure.cli.core"

\* a function with n positional parameters without default
FunctionSignature(name, n) ==
    Dict(("name" :> Str(name))
         @@ ("parameters" :> List([i \in 1..n |-> Dict("name" :> Str(ParamNames[i]))])))

\* a class with the first n attribute names and the methods of `methods`
\* (method name -> number of parameters)
ClassSignature(name, n, methods) ==
    Dict(("name" :> Str(name))
         @@ ("baseclasses" :> List(<<Str("object")>>))
         @@ ("attributes" :> List([i \in 1..n |-> Str(AttrNames[i])]))
         @@ ("methods" :> Dict([k \in DOMAIN methods |->
                                   FunctionSignature(k, methods[k])])))

\* a class of the models namespace: model_cls.kind is "Model" (it has an
\* _attribute_map, whose attributes are the domain of validation), "Exception"
\* or "Enum" (its members are model_cls.members); validation is its
\* _validation, attribute -> [required, readonly]
create_model_report(model_cls) ==
    Dict(("name" :> Str(model_cls.name))
         @@ ("type" :> Str(model_cls.kind))
         @@ (IF model_cls.kind = "Model" /\ DOMAIN model_cls.validation # {}
             THEN "parameters" :> Dict([a \in DOMAIN model_cls.validation |->
                      Dict(("name" :> Str(a))
                           @@ ("properties" :> Dict(("type" :> Str("str"))
                                  @@ ("required" :> Bool(model_cls.validation[a].required))
                                  @@ ("readonly" :> Bool(model_cls.validation[a].readonly)))))])
             ELSE <<>>)
         @@ (IF model_cls.kind = "Enum"
             THEN "values" :> List([i \in DOMAIN model_cls.members |->
                                       Str(model_cls.members[i])])
             ELSE <<>>))

\* an operation group: its name and its functions (function name -> parameters)
OperationGroup(name, functions) ==
    Dict(("name" :> Str(name))
         @@ ("functions" :> Dict([k \in DOMAIN functions |->
                                     FunctionSignature(k, functions[k])])))

FnAspects == [f : -1..MaxParams, g : BOOLEAN]

ClsAspects ==
    [present : {FALSE}, resize : {-1}, move : {FALSE}, attrs : {0}, gadget : BOOLEAN]
      \cup [present : {TRUE}, resize : -1..MaxParams, move : BOOLEAN,
            attrs : 0..MaxAttrs, gadget : BOOLEAN]

OthAspects == {"none", "size100", "size200", "limits1", "limits2"}

NoOperations == [present |-> FALSE, widgets |-> FALSE, get |-> -1, list |-> FALSE,
                 gadgets |-> FALSE]

\* a group appears with at least one function, the operations grouping with
\* at least one group
OpsAspects ==
    {NoOperations}
      \cup {a \in [present : {TRUE}, widgets : {TRUE}, get : -1..MaxParams,
                   list : BOOLEAN, gadgets : BOOLEAN] : a.get >= 0 \/ a.list}
      \cup [present : {TRUE}, widgets : {FALSE}, get : {-1}, list : {FALSE},
            gadgets : {TRUE}]

ParamStates == {"absent", "optional", "required"}

NoModels == [present |-> FALSE, name |-> "absent", tier |-> "absent",
             readonly |-> FALSE, capacity |-> "absent", color |-> "absent",
             size |-> FALSE, failure |-> FALSE]

\* the members of enum Color
EnumStates == {"absent", "empty", "red", "blue", "red_green"}

\* the versions of the models namespace: the parameters of model Sku vary
\* (readonly is the readonly flag of tier), or the enums and exceptions do
MdlAspects ==
    {NoModels}
      \cup [present : {TRUE}, name : {"absent", "optional"}, tier : ParamStates,
            readonly : BOOLEAN, capacity : ParamStates, color : {"absent"},
            size : {FALSE}, failure : {FALSE}]
      \cup [present : {TRUE}, name : {"optional"}, tier : {"absent"},
            readonly : {FALSE}, capacity : {"absent"}, color : EnumStates,
            size : BOOLEAN, failure : BOOLEAN]

Functions(a) ==
    [k \in (IF a.f >= 0 THEN {"f"} ELSE {}) \cup (IF a.g THEN {"g"} ELSE {}) |->
        FunctionSignature(k, IF k = "f" THEN a.f ELSE 0)]

Classes(a) ==
    (IF a.present
     THEN "Widget" :> ClassSignature("Widget", a.attrs,
              [k \in (IF a.resize >= 0 THEN {"resize"} ELSE {})
                       \cup (IF a.move THEN {"move"} ELSE {}) |->
                  IF k = "resize" THEN a.resize ELSE 0])
     ELSE <<>>)
    @@ (IF a.gadget
        THEN "Gadget" :> ClassSignature("Gadget", 0, "spin" :> 0)
        ELSE <<>>)

Others(a) ==
    CASE a = "none" -> <<>>
      [] a = "size100" -> "MAX_SIZE" :> Str("100")
      [] a = "size200" -> "MAX_SIZE" :> Str("200")
      [] a = "limits1" -> "LIMITS" :> Dict("methods" :> Dict("get" :> Str("1")))
      [] a = "limits2" -> "LIMITS" :> Dict("methods" :> Dict("get" :> Str("2")))

Operations(a) ==
    (IF a.widgets
     THEN "Widgets" :> OperationGroup("Widgets",
              [k \in (IF a.get >= 0 THEN {"get"} ELSE {})
                       \cup (IF a.list THEN {"list"} ELSE {}) |->
                  IF k = "get" THEN a.get ELSE 0])
     ELSE <<>>)
    @@ (IF a.gadgets THEN "Gadgets" :> OperationGroup("Gadgets", "get" :> 0) ELSE <<>>)

EnumMembers(state) ==
    CASE state = "red" -> <<"red">>
      [] state = "blue" -> <<"blue">>
      [] state = "red_green" -> <<"red", "green">>
      [] OTHER -> <<>>

Models(a) ==
    ("models" :> Dict("Sku" :> create_model_report(
         [name |-> "Sku", kind |-> "Model", members |-> <<>>,
          validation |->
             [k \in {x \in {"name", "tier", "capacity"} : a[x] # "absent"} |->
                 [required |-> a[k] = "required",
                  readonly |-> k = "tier" /\ a.readonly]]])))
    @@ ("enums" :> Dict(
           (IF a.color # "absent"
            THEN "Color" :> create_model_report(
                    [name |-> "Color", kind |-> "Enum", validation |-> <<>>,
                     members |-> EnumMembers(a.color)])
            ELSE <<>>)
           @@ (IF a.size
               THEN "Size" :> create_model_report(
                       [name |-> "Size", kind |-> "Enum", validation |-> <<>>,
                        members |-> <<"small">>])
               ELSE <<>>)))
    @@ ("exceptions" :> Dict(
           IF a.failure
           THEN "SkuError" :> create_model_report(
                   [name |-> "SkuError", kind |-> "Exception", validation |-> <<>>,
                    members |-> <<>>])
           ELSE <<>>))

\* the Report of one module
Report(surface) ==
    Dict(("functions" :> Dict(Functions(surface.fn)))
         @@ ("classes" :> Dict(Classes(surface.cls)))
         @@ ("exceptions" :> Dict(<<>>))
         @@ ("others" :> Dict(Others(surface.oth)))
         @@ (IF surface.ops.present
             THEN "operations" :> Dict(Operations(surface.ops)) ELSE <<>>)
         @@ (IF surface.mdl.present
             THEN "models" :> Dict(Models(surface.mdl)) ELSE <<>>))

\* the document main writes: one Report per module, or the aggregate report
\* keyed by module name
Document(shape, surface) ==
    IF shape = "aggregate"
    THEN Dict(ModuleName :> Report(surface))
    ELSE Report(surface)

BaseSurface ==
    [fn |-> [f |-> 0, g |-> FALSE],
     cls |-> [present |-> TRUE, resize |-> 1, move |-> FALSE, attrs |-> 0,
              gadget |-> FALSE],
     oth |-> "none",
     ops |-> NoOperations,
     mdl |-> NoModels]

\* the versions of the module under comparison differ in one category
FnFamily == {[BaseSurface EXCEPT !.fn = a] : a \in FnAspects}
ClsFamily == {[BaseSurface EXCEPT !.cls = a] : a \in ClsAspects}
OthFamily == {[BaseSurface EXCEPT !.oth = a] : a \in OthAspects}
OpsFamily == {[BaseSurface EXCEPT !.ops = a] : a \in OpsAspects}
MdlFamily == {[BaseSurface EXCEPT !.mdl = a] : a \in MdlAspects}

Families(d) ==
    IF d = "build_change_log"
    THEN {FnFamily, ClsFamily, OthFamily, OpsFamily, MdlFamily}
    ELSE {OpsFamily, MdlFamily}

Shapes(d) == IF d = "build_change_log" THEN {"module", "aggregate"} ELSE {"module"}

-----------------------------------------------------------------------------
(* The extractor on a live module (code_report.py).  An object of a module,  *)
(* or of a class, is a record:                                               *)
(*   name       the name it is bound to                                      *)
(*   __name__   its own name                                                 *)
(*   kind       "function" (a types.FunctionType), "class", "exception" (a   *)
(*              class under Exception), "module" or "constant" (anything     *)
(*              else); for a member of a class also "builtin" (the type of   *)
(*              len and of [].append), "wrapper" (a slot wrapper or a method *)
(*              descriptor, callable) and "data" (not callable)              *)
(*   origin     the name of the module inspect.getmodule gives, "" for none  *)
(*   signature  what inspect.signature gives: raises for ValueError, else    *)
(*              parameters, a sequence of [name, kind]; no parameter of the  *)
(*              model has a default                                          *)
(*   bases      the names of cls.__bases__                                   *)
(*   dir        the members of a class, in the order of dir(cls)             *)
(*   value      of a constant: its type, whether it is a Mapping or a list   *)
(*              (container), whether json.dumps accepts it (serializable),   *)
(*              the document it is then (json), the pieces of str(item)      *)
(*              (repr) unless str(item) raises (printable)                   *)
(* A text is a sequence of pieces of the string; Text joins them.            *)

\* the names that start with "_"
PrivateNames == {"_helper", "_get_config", "__init__", "__repr__", "_secret", "_Gadget"}

startswith_underscore(name) == name \in PrivateNames

RECURSIVE Text(_)
Text(pieces) == IF pieces = <<>> THEN "" ELSE Head(pieces) \o Text(Tail(pieces))

Signature(parameters) == [raises |-> FALSE, parameters |-> parameters]

\* inspect.signature(func) raises ValueError
Unreadable == [raises |-> TRUE, parameters |-> <<>>]

\* n positional parameters
Positional(n) ==
    Signature([i \in 1..n |-> [name |-> ParamNames[i], kind |-> "POSITIONAL_OR_KEYWORD"]])

\* the signature of object.__init__: (self, /, *args, **kwargs)
SlotWrapper ==
    Signature(<< [name |-> "self", kind |-> "POSITIONAL_ONLY"],
                 [name |-> "args", kind |-> "VAR_POSITIONAL"],
                 [name |-> "kwargs", kind |-> "VAR_KEYWORD"] >>)

NoValue == [type |-> "", container |-> FALSE, serializable |-> FALSE,
            json |-> Str(""), repr |-> <<>>, printable |-> TRUE]

Object(name, own, kind, origin) ==
    [name |-> name, __name__ |-> own, kind |-> kind, origin |-> origin,
     signature |-> Positional(0), bases |-> <<>>, dir |-> <<>>, value |-> NoValue]

Function(name, own, origin, signature) ==
    [Object(name, own, "function", origin) EXCEPT !.signature = signature]

Class(name, own, kind, origin, bases, members) ==
    [Object(name, own, kind, origin) EXCEPT !.bases = bases, !.dir = members]

\* a member of a class
Attr(name, kind, signature) ==
    [Object(name, name, kind, "") EXCEPT !.signature = signature]

Constant(name, value) == [Object(name, "", "constant", "") EXCEPT !.value = value]

\* a value that is neither a Mapping nor a list
Scalar(type, repr) ==
    [type |-> type, container |-> FALSE, serializable |-> FALSE, json |-> Str(""),
     repr |-> repr, printable |-> TRUE]

\* str(item), for an item it does not raise on
str(item) ==
    CASE item.kind \in {"class", "exception"} ->
            <<"<", "class '" \o item.origin \o "." \o item.__name__ \o "'", ">">>
      [] item.kind = "function" ->
            <<"<", "function " \o item.__name__ \o " at 0x7f3a5c1d2e50", ">">>
      [] OTHER -> item.value.repr

\* str(type(item)), for an item that is not a class
type(item) ==
    <<"<", "class '" \o (IF item.kind = "function" THEN "function" ELSE item.value.type)
                     \o "'", ">">>

\* whether str(item) raises
printable(item) == item.kind # "constant" \/ item.value.printable

\* json.dumps(obj) inside try / except
is_json_serializable(obj) == obj.value.serializable

\* [error, value]: the exception raised ("none": none) and the value returned
format_for_report(item) ==
    IF item.kind = "constant" /\ item.value.container /\ is_json_serializable(item)
    THEN [error |-> "none", value |-> item.value.json]
    ELSE IF item.kind \in {"class", "exception"}
    THEN [error |-> "none", value |-> Str(Text(str(item)))]
    ELSE IF ~printable(item)
    THEN [error |-> "RuntimeError", value |-> Str("")]
    ELSE IF Head(str(item)) = "<" /\ str(item)[Len(str(item))] = ">"
    THEN [error |-> "none", value |-> Str("instance of " \o Text(type(item)))]
    ELSE [error |-> "none", value |-> Str(Text(str(item)))]

\* the name of a parameter in the report, by its kind
param_name(parameter) ==
    IF parameter.kind = "VAR_POSITIONAL" THEN "*" \o parameter.name
    ELSE IF parameter.kind = "VAR_KEYWORD" THEN "**" \o parameter.name
    ELSE parameter.name

create_report_from_func(func) ==
    IF func.signature.raises
    THEN Dict(<<>>)
    ELSE Dict(("name" :> Str(func.__name__))
              @@ ("parameters" :> List([i \in DOMAIN func.signature.parameters |->
                     Dict("name" :> Str(param_name(func.signature.parameters[i])))])))

is_builtin_function(func) == func.kind = "builtin"

callable(op_attr) == op_attr.kind # "data"

\* the loop of create_report_from_class over dir(cls); cls_report is
\* [attributes, methods]
RECURSIVE create_report_from_class_loop(_, _)
create_report_from_class_loop(cls_report, members) ==
    IF members = <<>> THEN cls_report
    ELSE LET op_attr == Head(members)
             func_content == create_report_from_func(op_attr)
         IN create_report_from_class_loop(
               IF startswith_underscore(op_attr.name) /\ op_attr.name # "__init__"
               THEN cls_report
               ELSE IF is_builtin_function(op_attr)
               THEN cls_report
               ELSE IF callable(op_attr) \/ op_attr.name = "__init__"
               THEN IF Truthy(func_content)
                    THEN [cls_report EXCEPT !.methods = (op_attr.name :> func_content) @@ @]
                    ELSE cls_report
               ELSE [cls_report EXCEPT !.attributes = Append(@, Str(op_attr.name))],
               Tail(members))

create_report_from_class(cls) ==
    LET named == ("name" :> Str(cls.__name__))
                 @@ ("baseclasses" :> List([i \in DOMAIN cls.bases |-> Str(cls.bases[i])]))
    IN IF cls.kind = "exception"
       THEN Dict(named)
       ELSE LET walked == create_report_from_class_loop(
                              [attributes |-> <<>>, methods |-> <<>>], cls.dir)
            IN Dict(named @@ ("attributes" :> List(walked.attributes))
                          @@ ("methods" :> Dict(walked.methods)))

\* handle_imported_module finding no member imported
handle_imported_module_never(item, item_type, module_name) == <<>>

\* <<>> stands for None; str() of a function or of a class does not raise
handle_imported_module(item, item_type, module_name) ==
    IF item.origin # "" /\ item.origin # module_name
    THEN << item.__name__ :> Dict(("names" :> Str(item.__name__))
                                  @@ ("type" :> format_for_report(item).value)
                                  @@ ("source" :> Str(item.origin))),
            item_type >>
    ELSE <<>>

create_report_helper(item, module_name) ==
    IF item.kind = "function" /\ ~startswith_underscore(item.__name__)
    THEN LET imported == handle_imported_module(item, "functions", module_name) IN
         IF imported # <<>> THEN imported
         ELSE << item.__name__ :> create_report_from_func(item), "functions" >>
    ELSE IF item.kind = "exception"
    THEN LET imported == handle_imported_module(item, "exceptions", module_name) IN
         IF imported # <<>> THEN imported
         ELSE << item.__name__ :> create_report_from_class(item), "exceptions" >>
    ELSE IF item.kind = "class"
    THEN LET imported == handle_imported_module(item, "classes", module_name) IN
         IF imported # <<>> THEN imported
         ELSE << item.__name__ :> create_report_from_class(item), "classes" >>
    ELSE << <<>>, "None" >>

\* lines 76-84 of create_report for one member: the report after it, helped
\* being what create_report_helper returned
update(report, item, helped) ==
    IF helped[2] # "None"
    THEN [report EXCEPT ![helped[2]] = helped[1] @@ @]
    ELSE IF format_for_report(item).error # "none"
    THEN [report EXCEPT !.error = format_for_report(item).error]
    ELSE [report EXCEPT !.others = (item.name :> format_for_report(item).value) @@ @]

\* the loop of create_report over the members, in the order of dir(), and
\* its return: [error, report].  The first argument is the report so far,
\* with the exception that ended the loop ("none": none)
RECURSIVE create_report_loop(_, _, _)
create_report_loop(report, items, module_name) ==
    IF report.error # "none"
    THEN [error |-> report.error, report |-> {}]
    ELSE IF items = <<>>
    THEN [error |-> "none",
          report |-> Dict([category \in {"functions", "classes", "exceptions", "others"}
                              |-> Dict(report[category])])]
    ELSE IF startswith_underscore(Head(items).name) \/ Head(items).kind = "module"
    THEN create_report_loop(report, Tail(items), module_name)
    ELSE create_report_loop(
             update(report, Head(items), create_report_helper(Head(items), module_name)),
             Tail(items), module_name)

\* create_report as it runs on the imported module: [error, report], the
\* Report of the four categories of the members of the module
report_of_module(module_to_generate, module_name) ==
    create_report_loop([error |-> "none", functions |-> <<>>, classes |-> <<>>,
                        exceptions |-> <<>>, others |-> <<>>],
                       module_to_generate, module_name)

\* the members of class Widget, as dir(Widget) lists them; run has n parameters
WidgetDir(n) ==
    << Attr("__init__", "function", Positional(2)),
       Attr("__repr__", "function", Positional(1)),
       Attr("_secret", "data", Positional(0)),
       Attr("color", "data", Positional(0)),
       Attr("run", "function", Positional(n)) >>

\* the members of a class that defines no constructor: __init__ is the slot
\* wrapper of object
PlainDir(n) ==
    << Attr("__init__", "wrapper", SlotWrapper),
       Attr("label", "data", Positional(0)),
       Attr("run", "function", Positional(n)) >>

\* the members of a class under str: maketrans is a builtin function, upper
\* a method descriptor; whether the constructor and the descriptors of the
\* platform have a signature depends on the platform
StrDir(readable) ==
    << Attr("__init__", "wrapper", IF readable THEN SlotWrapper ELSE Unreadable),
       Attr("maketrans", "builtin", Unreadable),
       Attr("parse", "function", Positional(1)),
       Attr("upper", "wrapper", IF readable THEN Positional(1) ELSE Unreadable) >>

\* the names dir() lists for the module, in its order, and what each is
\* bound to in the first state of the member
Members ==
    << Constant("AZURE_API_PROFILES",
          [type |-> "dict", container |-> TRUE, serializable |-> FALSE,
           json |-> Str(""), printable |-> TRUE,
           repr |-> <<"{", "'latest': {<ResourceType.MGMT_STORAGE: 1>: '2019-06-01'}", "}">>]),
       Class("Button", "Button", "class", ModuleName, <<"Widget">>,
             WidgetDir(1) \o <<Attr("size", "data", Positional(0))>>),
       Class("CLIError", "CLIError", "exception", "knack.util", <<"Exception">>,
             PlainDir(1)),
       Constant("DEFAULTS",
          [type |-> "dict", container |-> TRUE, serializable |-> TRUE,
           json |-> Dict("timeout" :> Str("30")), printable |-> TRUE,
           repr |-> <<"{", "'timeout': '30'", "}">>]),
       Class("Gadget", "_Gadget", "class", ModuleName, <<"object">>, PlainDir(1)),
       Constant("MAX_SIZE", Scalar("int", <<"100">>)),
       Constant("NAMES",
          [type |-> "list", container |-> TRUE, serializable |-> TRUE,
           json |-> List(<<Str("east"), Str("west")>>), printable |-> TRUE,
           repr |-> <<"[", "'east', 'west'", "]">>]),
       Class("OrderedDict", "OrderedDict", "class", "collections", <<"dict">>,
             PlainDir(1)),
       Class("Plain", "Plain", "class", ModuleName, <<"object">>, PlainDir(1)),
       Class("ResourceId", "ResourceId", "class", ModuleName, <<"str">>, StrDir(TRUE)),
       Class("SkuError", "SkuError", "exception", ModuleName, <<"Exception">>,
             PlainDir(1)),
       Class("Widget", "Widget", "class", ModuleName, <<"object">>, WidgetDir(1)),
       Function("_helper", "_helper", ModuleName, Positional(1)),
       Function("f", "f", ModuleName, Positional(1)),
       Function("g", "f", ModuleName, Positional(1)),
       Function("get_config", "_get_config", ModuleName, Positional(1)),
       Function("h", "h", ModuleName, Positional(1)),
       Function("join", "join", "os.path", Positional(1)),
       Constant("logger", Scalar("logging.Logger",
                                 <<"<", "Logger azure.cli.core (INFO)", ">">>)),
       Object("models", "azure.cli.core.models", "module", "azure.cli.core.models"),
       Object("operations", "azure.cli.core.operations", "module",
              "azure.cli.core.operations"),
       Object("os", "os", "module", "os"),
       Constant("registry",
          [type |-> "azure.cli.core.Registry", container |-> TRUE,
           serializable |-> FALSE, json |-> Str(""), printable |-> TRUE,
           repr |-> <<"<", "azure.cli.core.Registry object at 0x7f3a5c1d2e50", ">">>]),
       Constant("settings",
          [type |-> "azure.cli.core.LazySettings", container |-> FALSE,
           serializable |-> FALSE, json |-> Str(""), printable |-> FALSE,
           repr |-> <<>>]) >>

\* the member in its second state: another signature (of method run, for a
\* class), another value for MAX_SIZE; the signature of h and the platform
\* signatures of ResourceId cannot be read
Changed(item) ==
    CASE item.name = "h" -> [item EXCEPT !.signature = Unreadable]
      [] item.name = "ResourceId" -> [item EXCEPT !.dir = StrDir(FALSE)]
      [] item.name = "MAX_SIZE" -> [item EXCEPT !.value = Scalar("int", <<"200">>)]
      [] item.kind = "function" /\ item.name # "h" ->
            [item EXCEPT !.signature = Positional(2)]
      [] item.kind \in {"class", "exception"} /\ item.name # "ResourceId" ->
            [item EXCEPT !.dir = [i \in DOMAIN @ |->
                IF @[i].name = "run" THEN [@[i] EXCEPT !.signature = Positional(2)]
                ELSE @[i]]]
      [] OTHER -> item

\* a member is absent from a version of the module, or present in one of two
\* states
MemberStates == {"absent", "one", "two"}

\* the members of every version of the module the change log is computed for
CoreNames ==
    {"CLIError", "MAX_SIZE", "OrderedDict", "SkuError", "Widget", "_helper", "f",
     "get_config", "join", "os"}

BaseVersion ==
    [i \in DOMAIN Members |-> IF Members[i].name \in CoreNames THEN "one" ELSE "absent"]

\* the versions of the module: at most one member of the base differs
Versions ==
    {BaseVersion}
      \cup {[BaseVersion EXCEPT ![i] = state] :
               i \in {j \in DOMAIN Members : Members[j].name \in CoreNames},
               state \in MemberStates}

\* the number of members in which a module under extraction differs from the
\* base version
MaxChanged == 2

\* the modules handed to the extractor
RECURSIVE Variants(_)
Variants(n) ==
    IF n = 0 THEN {BaseVersion}
    ELSE {[v EXCEPT ![i] = state] :
             v \in Variants(n - 1), i \in DOMAIN Members, state \in MemberStates}

\* the members of a version, as dir() and getattr give them
RECURSIVE Dir(_, _)
Dir(version, i) ==
    IF i > Len(Members) THEN <<>>
    ELSE (IF version[i] = "absent" THEN <<>>
          ELSE IF version[i] = "one" THEN <<Members[i]>>
          ELSE <<Changed(Members[i])>>)
         \o Dir(version, i + 1)

-----------------------------------------------------------------------------
(* Packages.  The name of a package or of a module is a text whose pieces    *)
(* are its components and the separators between them.  A site maps the name *)
(* of each module that can be found to [ispkg, raises, children, members]:   *)
(* whether it has a __path__, the exception its import raises ("none":       *)
(* none), what pkgutil.iter_modules lists beneath it, and its members.       *)

PackageName == <<"azure", "-", "cli", "-", "core">>

\* text.replace("-", ".")
replace_dashes(text) ==
    [i \in DOMAIN text |-> IF text[i] = "-" THEN "." ELSE text[i]]

\* text.split(sep)
RECURSIVE split(_, _)
split(text, sep) ==
    IF \A i \in DOMAIN text : text[i] # sep THEN <<text>>
    ELSE LET at == CHOOSE i \in DOMAIN text :
                       text[i] = sep /\ \A j \in 1..(i - 1) : text[j] # sep
         IN <<SubSeq(text, 1, at - 1)>> \o split(SubSeq(text, at + 1, Len(text)), sep)

\* text.startswith(prefix)
startswith(text, prefix) ==
    Len(text) >= Len(prefix) /\ SubSeq(text, 1, Len(prefix)) = prefix

parse_input(input_parameter) ==
    LET split_package_name == split(input_parameter, "#")
        package_name == split_package_name[1]
        module_name == replace_dashes(package_name)
    IN << package_name,
          IF Len(split_package_name) >= 2
          THEN module_name \o <<".">> \o split_package_name[2]
          ELSE module_name >>

\* get_sub_module_part returning the name from the character that follows the
\* package on
get_sub_module_part_keeps_separator(package_name, module_name) ==
    LET sub_module_from_package == replace_dashes(package_name) IN
    IF ~startswith(module_name, sub_module_from_package)
    THEN [none |-> TRUE, part |-> <<>>]
    ELSE [none |-> FALSE,
          part |-> SubSeq(module_name, Len(sub_module_from_package) + 1,
                          Len(module_name))]

\* [none, part]: None, or the name of the module beyond the package and the
\* character that follows it (a separator, in every name the walk gives)
get_sub_module_part(package_name, module_name) ==
    LET sub_module_from_package == replace_dashes(package_name) IN
    IF ~startswith(module_name, sub_module_from_package)
    THEN [none |-> TRUE, part |-> <<>>]
    ELSE [none |-> FALSE,
          part |-> SubSeq(module_name, Len(sub_module_from_package) + 2,
                          Len(module_name))]

\* importlib.import_module(module_name): [error, module]
import_module(site, module_name) ==
    IF Text(module_name) \notin DOMAIN site
    THEN [error |-> "ModuleNotFoundError", module |-> <<>>]
    ELSE [error |-> site[Text(module_name)].raises, module |-> site[Text(module_name)]]

\* create_report(module_name): [error, report]
create_report(site, module_name) ==
    IF import_module(site, module_name).error # "none"
    THEN [error |-> import_module(site, module_name).error, report |-> {}]
    ELSE report_of_module(import_module(site, module_name).module.members,
                          Text(module_name))

\* [error, result]: the modules beneath module_prefix, itself included;
\* iter_modules is the loop over pkgutil.iter_modules
RECURSIVE find_all_core_modules(_, _)
RECURSIVE iter_modules(_, _, _, _)
find_all_core_modules(site, module_prefix) ==
    LET imported == import_module(site, module_prefix) IN
    IF imported.error # "none"
    THEN [error |-> imported.error, result |-> <<>>]
    ELSE IF ~imported.module.ispkg
    THEN [error |-> "AttributeError", result |-> <<>>]
    ELSE iter_modules(site, module_prefix, imported.module.children, <<module_prefix>>)

iter_modules(site, module_prefix, children, listed) ==
    IF children = <<>> THEN [error |-> "none", result |-> listed]
    ELSE LET sub_package == module_prefix \o <<".", Head(children).name>>
             pkg_arr == split(sub_package, ".")
             found == find_all_core_modules(site, sub_package)
         IN IF pkg_arr[Len(pkg_arr)] \in { <<"tests">> }
            THEN iter_modules(site, module_prefix, Tail(children), listed)
            ELSE IF Head(children).ispkg
            THEN IF found.error # "none"
                 THEN [error |-> found.error, result |-> <<>>]
                 ELSE iter_modules(site, module_prefix, Tail(children),
                                   listed \o found.result)
            ELSE iter_modules(site, module_prefix, Tail(children),
                              Append(listed, sub_package))

\* lines 292-311 of main for one module, created being what create_report
\* returned for it.  done is [error, result, aggregate_report, files,
\* version]: the exception raised ("none": none), the paths returned so far,
\* the aggregate report so far, the files written so far (path -> document)
\* and the version ("": None)
store(done, package_name, module_name, created, aggregate) ==
    LET version == IF done.version # "" THEN done.version ELSE "latest"
        module_for_path == get_sub_module_part(package_name, module_name)
        output_filename ==
            << Text(package_name), "code_reports", version,
               IF module_for_path.part # <<>>
               THEN Text(module_for_path.part) \o ".json"
               ELSE "__init__.json" >>
    IN IF created.error # "none"
       THEN [done EXCEPT !.error = created.error]
       ELSE IF module_for_path.none
       THEN [done EXCEPT !.error = "TypeError", !.version = version]
       ELSE IF aggregate
       THEN [done EXCEPT !.version = version,
                         !.aggregate_report = (Text(module_name) :> created.report) @@ @]
       ELSE [done EXCEPT !.version = version,
                         !.files = (output_filename :> created.report) @@ @,
                         !.result = Append(@, output_filename)]

\* the loop of main over the modules and what follows it: [error, result,
\* files], the exception raised, the list returned and the files written
RECURSIVE main_loop(_, _, _, _, _)
main_loop(site, package_name, modules, aggregate, done) ==
    IF done.error # "none"
    THEN [error |-> done.error, result |-> done.result, files |-> done.files]
    ELSE IF modules # <<>>
    THEN main_loop(site, package_name, Tail(modules), aggregate,
                   store(done, package_name, Head(modules),
                         create_report(site, Head(modules)), aggregate))
    ELSE IF aggregate
    THEN [error |-> "none",
          result |-> << <<Text(package_name), "code_reports", done.version,
                          "report.json">> >>,
          files |-> (<<Text(package_name), "code_reports", done.version, "report.json">>
                        :> Dict(done.aggregate_report)) @@ done.files]
    ELSE [error |-> "none", result |-> done.result, files |-> done.files]

\* main from find_all_core_modules on: [error, result, files]
in_process(site, package_name, module_name, version, aggregate) ==
    IF find_all_core_modules(site, module_name).error # "none"
    THEN [error |-> find_all_core_modules(site, module_name).error,
          result |-> <<>>, files |-> <<>>]
    ELSE main_loop(site, package_name, find_all_core_modules(site, module_name).result,
                   aggregate,
                   [error |-> "none", result |-> <<>>, aggregate_report |-> <<>>,
                    files |-> <<>>, version |-> version])

\* the loop of main over the versions: in the environment of each version
\* the script is run with --no-venv --version; a run that fails is logged
\* and the files it wrote remain
RECURSIVE venv_loop(_, _, _, _, _)
venv_loop(env, input_parameter, versions, aggregate, written) ==
    IF versions = <<>> THEN written
    ELSE venv_loop(env, input_parameter, Tail(versions), aggregate,
                   in_process(env.index[Head(versions)], parse_input(input_parameter)[1],
                              parse_input(input_parameter)[2], Head(versions),
                              aggregate).files @@ written)

\* [error, none, result, files]: the exception raised, whether None is
\* returned, the list returned and the files written.  version is "" for
\* None; env is [site, index, pypi]: the modules of the interpreter, the site
\* the environment of each version gets, the versions PyPI lists, in order.
main(input_parameter, version, no_venv, pypi, last_pypi, aggregate, env) ==
    IF (version # "" \/ pypi \/ last_pypi) /\ ~no_venv
    THEN [error |-> "none", none |-> TRUE, result |-> <<>>,
          files |-> venv_loop(env, input_parameter,
                             IF version # "" THEN <<version>>
                             ELSE IF last_pypi THEN <<env.pypi[Len(env.pypi)]>>
                             ELSE env.pypi,
                             aggregate, <<>>)]
    ELSE [none |-> FALSE]
         @@ in_process(env.site, parse_input(input_parameter)[1],
                       parse_input(input_parameter)[2], version, aggregate)

\* the name of the module of the package
CoreModule == replace_dashes(PackageName)

Leaf(members) ==
    [ispkg |-> FALSE, raises |-> "none", children |-> <<>>, members |-> members]

Pkg(children, members) ==
    [ispkg |-> TRUE, raises |-> "none", children |-> children, members |-> members]

\* the members of the modules beneath the package
SubMembers == <<Function("parse", "parse", "", Positional(1))>>

\* the package is not installed
NoSite == <<>>

\* a package of one module
SingleSite(members) == Text(CoreModule) :> Pkg(<<>>, members)

\* the package and a module util beneath it
FlatSite(members) ==
    (Text(CoreModule) :> Pkg(<<[name |-> "util", ispkg |-> FALSE]>>, members))
    @@ (Text(CoreModule \o <<".", "util">>) :> Leaf(SubMembers))

\* the same, the import of util failing
BrokenSite(members) ==
    (Text(CoreModule \o <<".", "util">>) :> [Leaf(SubMembers) EXCEPT !.raises = "ImportError"])
    @@ FlatSite(members)

\* the package, the packages commands and tests and the module util beneath
\* it, a module beneath each package
DeepSite(members) ==
    (Text(CoreModule) :> Pkg(<< [name |-> "commands", ispkg |-> TRUE],
                                [name |-> "tests", ispkg |-> TRUE],
                                [name |-> "util", ispkg |-> FALSE] >>, members))
    @@ (Text(CoreModule \o <<".", "commands">>)
           :> Pkg(<<[name |-> "arm", ispkg |-> FALSE]>>, SubMembers))
    @@ (Text(CoreModule \o <<".", "commands", ".", "arm">>) :> Leaf(SubMembers))
    @@ (Text(CoreModule \o <<".", "tests">>)
           :> Pkg(<<[name |-> "test_keys", ispkg |-> FALSE]>>, SubMembers))
    @@ (Text(CoreModule \o <<".", "tests", ".", "test_keys">>) :> Leaf(SubMembers))
    @@ (Text(CoreModule \o <<".", "util">>) :> Leaf(SubMembers))

Sites(members) ==
    {NoSite, SingleSite(members), FlatSite(members), BrokenSite(members),
     DeepSite(members)}

\* the versions PyPI lists, in order
PyPI == <<"1.0.0", "2.0.0">>

\* the environment of a package of one module, the same in every version
Installed(members) ==
    [site |-> SingleSite(members),
     index |-> [version \in {"1.0.0", "2.0.0"} |-> SingleSite(members)],
     pypi |-> PyPI]

\* the operands of the command line: a path to the Report of the module, a
\* path to an aggregate report, or <package>:<version>
Operands ==
    { <<"module.json">>, <<"report.json">>,
      PackageName \o <<":", "latest">>, PackageName \o <<":", "2.0.0">>,
      PackageName \o <<":", "pypi">> }

\* json.load of the file at the path: the document an earlier run of the
\* extractor wrote there for this version of the module
load(path, module_to_generate) ==
    LET opened(ran) == ran.files[ran.result[1]]
    IN opened(main(PackageName, "", TRUE, FALSE, FALSE, path = <<"report.json">>,
                   Installed(module_to_generate)))

\* [error, report]: the exception raised ("none": none) and the Report returned
get_report_from_parameter(input_parameter, module_to_generate) ==
    IF \E i \in DOMAIN input_parameter : input_parameter[i] = ":"
    THEN LET package_name == split(input_parameter, ":")[1]
             version == Text(split(input_parameter, ":")[2])
             opened(written) ==
                 IF written.error # "none"
                 THEN [error |-> written.error, report |-> {}]
                 ELSE IF written.none \/ written.result = <<>>
                 THEN [error |-> "ValueError", report |-> {}]
                 ELSE IF Len(written.result) = 1
                 THEN [error |-> "none", report |-> written.files[written.result[1]]]
                 ELSE [error |-> "NotImplementedError", report |-> {}]
         IN opened(main(package_name,
                        IF version \notin {"pypi", "latest"} THEN version ELSE "",
                        FALSE, FALSE, version = "pypi", FALSE,
                        Installed(module_to_generate)))
    ELSE [error |-> "none", report |-> load(input_parameter, module_to_generate)]

-----------------------------------------------------------------------------
(* The run.                                                                 *)

ChangeLog == [features |-> features, breaking_changes |-> breaking_changes,
              error |-> "none"]

Init ==
    /\ driver \in {"build_change_log", "handlers"}
    /\ \E shape \in Shapes(driver), family \in Families(driver) :
         \E o \in family, n \in family :
            /\ old_report = Document(shape, o)
            /\ new_report = Document(shape, n)
    /\ result = {}
    /\ diff_line = <<>>
    /\ features = <<>>
    /\ breaking_changes = <<>>
    /\ pc = "start"
    /\ error = "none"
    /\ md = <<>>
    /\ argv = <<>>
    /\ package = <<>>
    /\ arguments = <<>>
    /\ environment = <<>>
    /\ returned = <<>>
    /\ disk = <<>>

\* ChangeLog(old_report, new_report); result = diff(old_report, new_report)
Start ==
    /\ pc = "start"
    /\ result' = diff(old_report, new_report, <<>>)
    /\ pc' = "loop"
    /\ UNCHANGED <<old_report, new_report, diff_line, features, breaking_changes,
                   error, driver, md, argv, package, extraction>>

\* the ChangeLog cl is what the handler left
Leave(cl) ==
    /\ features' = cl.features
    /\ breaking_changes' = cl.breaking_changes
    /\ error' = cl.error
    /\ pc' = IF cl.error = "none" THEN "loop" ELSE "raised"

\* one turn of `for diff_line in result` in build_change_log
Iterate ==
    /\ pc = "loop"
    /\ driver = "build_change_log"
    /\ \E entry \in result :
         /\ diff_line' = entry
         /\ result' = result \ {entry}
         /\ Leave(classify(ChangeLog, entry))
    /\ UNCHANGED <<old_report, new_report, driver, md, argv, package, extraction>>

\* change_log.operation(diff_line), for an edit rooted at the operation groups
CallOperation ==
    /\ pc = "loop"
    /\ driver = "handlers"
    /\ \E entry \in result :
         /\ entry[1] # <<>>
         /\ entry[1][1] = "operations"
         /\ diff_line' = entry
         /\ result' = result \ {entry}
         /\ Leave(operation(ChangeLog, entry))
    /\ UNCHANGED <<old_report, new_report, driver, md, argv, package, extraction>>

\* change_log.models(diff_line), for an edit rooted at the models
CallModels ==
    /\ pc = "loop"
    /\ driver = "handlers"
    /\ \E entry \in result :
         /\ entry[1] # <<>>
         /\ entry[1][1] = "models"
         /\ diff_line' = entry
         /\ result' = result \ {entry}
         /\ Leave(models(ChangeLog, entry))
    /\ UNCHANGED <<old_report, new_report, driver, md, argv, package, extraction>>

\* the edits are exhausted: return change_log
Return ==
    /\ pc = "loop"
    /\ result = {}
    /\ pc' = "done"
    /\ UNCHANGED <<old_report, new_report, result, diff_line, features,
                   breaking_changes, error, driver, md, argv, package, extraction>>

\* print(change_log.build_md())
Render ==
    /\ pc = "done"
    /\ md' = build_md(ChangeLog)
    /\ pc' = "printed"
    /\ UNCHANGED <<old_report, new_report, result, diff_line, features,
                   breaking_changes, error, driver, argv, package, extraction>>

Next == Start \/ Iterate \/ CallOperation \/ CallModels \/ Return \/ Render

Spec == Init /\ [][Next]_vars

-----------------------------------------------------------------------------
(* The command line of change_log.py: both operands are resolved into        *)
(* Reports, the Reports are compared and the change log is printed.          *)

InitMain ==
    /\ argv \in Operands \X Operands
    /\ package \in Versions \X Versions
    /\ driver = "build_change_log"
    /\ old_report = {}
    /\ new_report = {}
    /\ result = {}
    /\ diff_line = <<>>
    /\ features = <<>>
    /\ breaking_changes = <<>>
    /\ pc = "args"
    /\ error = "none"
    /\ md = <<>>
    /\ arguments = <<>>
    /\ environment = <<>>
    /\ returned = <<>>
    /\ disk = <<>>

\* old_report = get_report_from_parameter(args.base)
GetBase ==
    /\ pc = "args"
    /\ \E got \in {get_report_from_parameter(argv[1], Dir(package[1], 1))} :
         /\ old_report' = got.report
         /\ error' = got.error
         /\ pc' = IF got.error = "none" THEN "base" ELSE "raised"
    /\ UNCHANGED <<new_report, result, diff_line, features, breaking_changes,
                   driver, md, argv, package, extraction>>

\* new_report = get_report_from_parameter(args.latest)
GetLatest ==
    /\ pc = "base"
    /\ \E got \in {get_report_from_parameter(argv[2], Dir(package[2], 1))} :
         /\ new_report' = got.report
         /\ error' = got.error
         /\ pc' = IF got.error = "none" THEN "start" ELSE "raised"
    /\ UNCHANGED <<old_report, result, diff_line, features, breaking_changes,
                   driver, md, argv, package, extraction>>

NextMain == GetBase \/ GetLatest \/ Start \/ Iterate \/ Return \/ Render

MainSpec == InitMain /\ [][NextMain]_vars

-----------------------------------------------------------------------------
(* The extractor called on its own: format_for_report on a value,            *)
(* create_report on a module, main on a package.                             *)

\* the values handed to format_for_report: the members of the module that
\* are not modules, in either state
Values ==
    {Members[i] : i \in DOMAIN Members} \cup {Changed(Members[i]) : i \in DOMAIN Members}

\* the package, or a module beneath it
Inputs ==
    {PackageName, PackageName \o <<"#", "commands">>, PackageName \o <<"#", "util">>}

InitExtract ==
    /\ driver \in {"format_for_report", "create_report", "main"}
    /\ \/ /\ driver = "format_for_report"
          /\ arguments \in [item : {x \in Values : x.kind # "module"}]
          /\ environment = <<>>
       \/ /\ driver = "create_report"
          /\ arguments = [module_name |-> CoreModule]
          /\ environment \in {NoSite}
                \cup {SingleSite(Dir(v, 1)) : v \in Variants(MaxChanged)}
       \/ /\ driver = "main"
          /\ arguments \in [input_parameter : Inputs, version : {"", "2.0.0"},
                              no_venv : BOOLEAN, pypi : BOOLEAN, last_pypi : BOOLEAN,
                              aggregate : BOOLEAN]
          /\ environment \in
                {[site |-> s,
                  index |-> ("1.0.0" :> SingleSite(Dir(BaseVersion, 1))) @@ ("2.0.0" :> t),
                  pypi |-> PyPI] :
                    s \in Sites(Dir(BaseVersion, 1)), t \in Sites(Dir(BaseVersion, 1))}
    /\ pc = "call"
    /\ error = "none"
    /\ returned = <<>>
    /\ disk = <<>>
    /\ old_report = {}
    /\ new_report = {}
    /\ result = {}
    /\ diff_line = <<>>
    /\ features = <<>>
    /\ breaking_changes = <<>>
    /\ md = <<>>
    /\ argv = <<>>
    /\ package = <<>>

\* the call returns or raises
Leaves(exception) ==
    /\ error' = exception
    /\ pc' = IF exception = "none" THEN "returned" ELSE "raised"
    /\ UNCHANGED <<old_report, new_report, result, diff_line, features,
                   breaking_changes, driver, md, argv, package, arguments,
                   environment>>

\* format_for_report(item)
CallFormat ==
    /\ pc = "call"
    /\ driver = "format_for_report"
    /\ \E formatted \in {format_for_report(arguments.item)} :
         /\ returned' = IF formatted.error = "none" THEN formatted.value ELSE <<>>
         /\ Leaves(formatted.error)
    /\ UNCHANGED disk

\* create_report(module_name)
CallCreateReport ==
    /\ pc = "call"
    /\ driver = "create_report"
    /\ \E created \in {create_report(environment, arguments.module_name)} :
         /\ returned' = IF created.error = "none" THEN created.report ELSE <<>>
         /\ Leaves(created.error)
    /\ UNCHANGED disk

\* main(input_parameter, version, no_venv, pypi, last_pypi, aggregate)
CallMain ==
    /\ pc = "call"
    /\ driver = "main"
    /\ \E ran \in {main(arguments.input_parameter, arguments.version,
                         arguments.no_venv, arguments.pypi, arguments.last_pypi,
                         arguments.aggregate, environment)} :
          /\ returned' = [none |-> ran.none, result |-> ran.result]
          /\ disk' = ran.files
          /\ Leaves(ran.error)

NextExtract == CallFormat \/ CallCreateReport \/ CallMain

ExtractSpec == InitExtract /\ [][NextExtract]_vars

-----------------------------------------------------------------------------
(* Vocabulary of the properties.                                            *)

\* the Report of the module inside a document of either shape
ReportOf(doc) == IF HasPath(doc, <<ModuleName>>) THEN Get(doc, ModuleName) ELSE doc

\* the keys of doc[p[1]][p[2]]..., none when the path is absent
KeysAt(doc, p) == IF HasPath(doc, p) THEN Keys(GetPath(doc, p)) ELSE {}

Count(entries, message) == Cardinality({i \in DOMAIN entries : entries[i] = message})

\* the entry mentions the name
Mentions(message, name) == \E i \in DOMAIN message : message[i] = name

\* a turn of a loop has handed diff_line' to its handler
Handled == pc = "loop" /\ result' # result

\* the two Reports differ at most beneath the path p
DifferOnlyUnder(old, new, p) ==
    \A n \in (old \ new) \cup (new \ old) :
        Len(n[1]) >= Len(p) /\ SubSeq(n[1], 1, Len(p)) = p

-----------------------------------------------------------------------------
(* C1: a Report diffed against itself gives the empty edit list; the run     *)
(* ends with features = [] and breaking_changes = [], and build_md returns   *)
(* the empty string.                                                         *)
C1_SelfDiffIsEmpty ==
    (driver = "build_change_log" /\ old_report = new_report)
        => /\ pc # "raised"
           /\ result = {}
           /\ features = <<>>
           /\ breaking_changes = <<>>
           /\ (pc = "printed" => md = <<>>)

C1_Witness ==
    driver = "build_change_log" /\ old_report = new_report /\ pc = "printed"

(* C2: for every function absent from the old Report and present in the new  *)
(* one, build_change_log ends with exactly one feature entry naming the      *)
(* function and its module, and no breaking entry for it.                    *)
C2_NewFunctionOneFeature ==
    (driver = "build_change_log" /\ pc = "done")
        => \A f \in KeysAt(ReportOf(new_report), <<"functions">>)
                      \ KeysAt(ReportOf(old_report), <<"functions">>) :
              /\ Count(features, Format(_ADD_FUNCTION, <<Name(f), Name(ModuleName)>>)) = 1
              /\ \A i \in DOMAIN breaking_changes : ~Mentions(breaking_changes[i], f)

\* method M of class C is in both Reports, and the new Report differs from
\* the old one only by one more parameter of M
GainedOneParameter(old, new, C, M) ==
    LET p == <<"classes", C, "methods", M, "parameters">> IN
    /\ HasPath(old, p)
    /\ HasPath(new, p)
    /\ old \subseteq new
    /\ DifferOnlyUnder(old, new, p)
    /\ Cardinality(Keys(GetPath(new, p))) = Cardinality(Keys(GetPath(old, p))) + 1

(* C3: when the only difference between the Reports is one more parameter of *)
(* method M of class C, build_change_log yields exactly the breaking entry   *)
(* "Method M of C in module m has a different signature." and no feature.    *)
C3_AddedParameterIsBreaking ==
    (driver = "build_change_log" /\ pc = "done")
        => \A C \in KeysAt(ReportOf(old_report), <<"classes">>) :
              \A M \in KeysAt(ReportOf(old_report), <<"classes", C, "methods">>) :
                 GainedOneParameter(ReportOf(old_report), ReportOf(new_report), C, M)
                    => /\ breaking_changes =
                             << Format(_METHOD_SIGNATURE_CHANGE,
                                       <<Name(M), Name(C), Name(ModuleName)>>) >>
                       /\ features = <<>>

(* C4: an edit whose path has the methods marker as 4th element appends      *)
(* exactly one feature entry "Method X of Y in module Z is new." when it     *)
(* adds a method that had no old value, and exactly one breaking entry and   *)
(* no feature entry when it changes or removes a method.                     *)
C4_MethodEdits ==
    [][ (driver = "build_change_log" /\ Handled
            /\ Len(diff_line'[1]) >= 4 /\ diff_line'[1][4] = "methods")
        => LET d == diff_line'[1] IN
           IF Len(diff_line') = 2 /\ ~HasPath(old_report, d) /\ Len(d) >= 5
           THEN /\ features' = Append(features,
                       Format(_ADD_METHOD, <<Name(d[5]), Name(d[3]), Name(d[1])>>))
                /\ breaking_changes' = breaking_changes
           ELSE /\ Len(breaking_changes') = Len(breaking_changes) + 1
                /\ features' = features ]_vars

(* C5: an edit whose path has exactly 3 elements with the classes marker as  *)
(* 2nd element appends exactly one feature entry "Class C in module m is     *)
(* new." and no breaking entry when it is not a deletion, and exactly one    *)
(* breaking entry "Class C in module m has been removed." and no feature     *)
(* entry when it is a deletion.                                              *)
C5_ClassEdits ==
    [][ (driver = "build_change_log" /\ Handled
            /\ Len(diff_line'[1]) = 3 /\ diff_line'[1][2] = "classes")
        => LET d == diff_line'[1] IN
           /\ pc' = "loop"
           /\ IF Len(diff_line') = 2
              THEN /\ features' = Append(features,
                          <<"Class ", d[3], " in module ", d[1], " is new.">>)
                   /\ breaking_changes' = breaking_changes
              ELSE /\ breaking_changes' = Append(breaking_changes,
                          <<"Class ", d[3], " in module ", d[1], " has been removed.">>)
                   /\ features' = features ]_vars

C5_Witness ==
    /\ driver = "build_change_log"
    /\ pc = "done"
    /\ diff_line = << <<ModuleName, "classes", "Widget">> >>
    /\ breaking_changes =
          << <<"Class ", "Widget", " in module ", ModuleName, " has been removed.">> >>
    /\ features = <<>>

(* C6: an edit whose path has the attributes marker as 4th element appends   *)
(* exactly one feature entry when it is an addition and exactly one breaking *)
(* entry when it is a deletion, and classifying it raises nothing.           *)
C6_AttributeEdits ==
    [][ (driver = "build_change_log" /\ Handled
            /\ Len(diff_line'[1]) >= 4 /\ diff_line'[1][4] = "attributes")
        => /\ pc' # "raised"
           /\ IF Len(diff_line') = 2
              THEN /\ Len(features') = Len(features) + 1
                   /\ breaking_changes' = breaking_changes
              ELSE /\ Len(breaking_changes') = Len(breaking_changes) + 1
                   /\ features' = features ]_vars

(* C7: when the two Reports differ only inside the others category,          *)
(* build_change_log ends with empty features and empty breaking_changes.     *)
C7_OthersAreNotClassified ==
    (driver = "build_change_log"
        /\ DifferOnlyUnder(ReportOf(old_report), ReportOf(new_report), <<"others">>))
        => /\ pc # "raised"
           /\ features = <<>>
           /\ breaking_changes = <<>>

(* C8: when an operation group G of the old Report is absent from the new    *)
(* one, diffing them produces exactly one breaking entry "Removed operation  *)
(* group G" and no entry for the functions of G.                             *)
C8_RemovedOperationGroup ==
    (driver = "build_change_log" /\ pc = "done")
        => \A G \in KeysAt(ReportOf(old_report), <<"operations">>)
                      \ KeysAt(ReportOf(new_report), <<"operations">>) :
              /\ Count(breaking_changes,
                       Format(_REMOVE_OPERATION_GROUP, <<Name(G)>>)) = 1
              /\ \A f \in KeysAt(ReportOf(old_report), <<"operations", G, "functions">>) :
                    Count(breaking_changes,
                          Format(_REMOVE_OPERATION, <<Name(G), Name(f)>>)) = 0

\* the functions of operation group G in a Report
OpsOf(report, G) == KeysAt(report, <<"operations", G, "functions">>)

\* G is an operation group of both Reports, each with its function listing
InBoth(G) ==
    /\ HasPath(old_report, <<"operations", G, "functions">>)
    /\ HasPath(new_report, <<"operations", G, "functions">>)

AddsModelParameter(e) ==
    /\ Len(e) = 2
    /\ Len(e[1]) = 5
    /\ e[1][1] = "models" /\ e[1][2] = "models" /\ e[1][4] = "parameters"
    /\ ~HasPath(old_report, e[1])
    /\ HasPath(new_report, e[1])

\* the Report marks the parameter at path p required
MarksRequired(report, p) == GetPath(report, p \o <<"properties", "required">>) = Bool(TRUE)

ModelParams(report, M) == KeysAt(report, <<"models", "models", M, "parameters">>)

\* the Report marks parameter P of model M required
RequiredIn(report, M, P) ==
    MarksRequired(report, <<"models", "models", M, "parameters", P>>)

(* C11: for a parameter P of model M of both Reports, once ChangeLog.models  *)
(* has processed every edit beneath P, breaking_changes holds exactly one    *)
(* "Parameter P of model M is now required" when the required flag went from *)
(* false to true, whatever else changed in P, and no entry names P when the  *)
(* flag went from true to false.                                             *)
C11_NowRequiredOnce ==
    (driver = "handlers" /\ pc = "done")
        => \A P \in ModelParams(old_report, "Sku") \cap ModelParams(new_report, "Sku") :
              /\ (~RequiredIn(old_report, "Sku", P) /\ RequiredIn(new_report, "Sku", P))
                    => Count(breaking_changes,
                             <<"Parameter ", P, " of model ", "Sku", " is now required">>) = 1
              /\ (RequiredIn(old_report, "Sku", P) /\ ~RequiredIn(new_report, "Sku", P))
                    => /\ \A i \in DOMAIN breaking_changes : ~Mentions(breaking_changes[i], P)
                       /\ \A i \in DOMAIN features : ~Mentions(features[i], P)

\* the edit is rooted at the model grouping, in the category of the enums or
\* of the exceptions (in a Report, or in a document keyed by module name)
EnumOrExceptionEdit(e) ==
    LET p == e[1] IN
    \/ Len(p) >= 2 /\ p[1] = "models" /\ p[2] \in {"enums", "exceptions"}
    \/ Len(p) >= 3 /\ p[1] = ModuleName /\ p[2] = "models"
          /\ p[3] \in {"enums", "exceptions"}

(* C12: an edit rooted at the model grouping with category enums or          *)
(* exceptions, of any path length, addition, change or deletion, leaves      *)
(* features and breaking_changes unchanged.                                  *)
C12_EnumsAndExceptionsIgnored ==
    [][ (Handled /\ EnumOrExceptionEdit(diff_line'))
        => /\ features' = features
           /\ breaking_changes' = breaking_changes
           /\ pc' = "loop" ]_vars

C12_Witness ==
    /\ driver = "handlers"
    /\ pc = "done"
    /\ diff_line = << <<"models", "enums", "Color", "values">>, List(<<>>) >>
    /\ features = <<>>
    /\ breaking_changes = <<>>

\* the path has one of the four shapes build_change_log dispatches on
Dispatched(d) ==
    \/ Len(d) >= 4 /\ d[4] \in {"methods", "attributes"}
    \/ Len(d) = 3 /\ d[2] \in {"functions", "classes"}

(* C13: in build_change_log an edit whose path has none of the four dispatch *)
(* shapes, paths shorter than 3 elements included, leaves features and       *)
(* breaking_changes unchanged and raises nothing.                            *)
C13_UnmatchedEditsIgnored ==
    [][ (driver = "build_change_log" /\ Handled /\ ~Dispatched(diff_line'[1]))
        => /\ features' = features
           /\ breaking_changes' = breaking_changes
           /\ error' = "none"
           /\ pc' = "loop" ]_vars

C13_Witness ==
    /\ driver = "build_change_log"
    /\ pc = "done"
    /\ Len(diff_line) = 2
    /\ diff_line[1] = <<"functions", "f">>
    /\ features = <<>>
    /\ breaking_changes = <<>>

\* the handler the driver hands the edit to
HandlerOf(cl, entry) ==
    IF driver = "build_change_log" THEN classify(cl, entry)
    ELSE IF entry[1] # <<>> /\ entry[1][1] = "operations" THEN operation(cl, entry)
    ELSE models(cl, entry)

\* the ChangeLog left by classifying the edits in the order of the sequence
RECURSIVE RunOver(_, _)
RunOver(cl, entries) ==
    IF entries = <<>> THEN cl
    ELSE RunOver(HandlerOf(cl, Head(entries)), Tail(entries))

\* the run over one fixed enumeration of the edits of the two Reports
Canonical ==
    RunOver([features |-> <<>>, breaking_changes |-> <<>>, error |-> "none"],
            SetToSeq(diff(old_report, new_report, <<>>)))

\* the two lists hold the same entries the same number of times
SameEntries(a, b) ==
    /\ Len(a) = Len(b)
    /\ \A i \in DOMAIN a : Count(a, a[i]) = Count(b, a[i])

(* C14: for a fixed pair of Reports, classifying the edit list in any order  *)
(* gives the same multiset of feature entries and the same multiset of       *)
(* breaking entries: every completed run agrees, up to the order within each *)
(* list, with the run over one fixed enumeration of the edits.               *)
C14_OrderOfEditsIrrelevant ==
    pc = "done"
        => /\ SameEntries(features, Canonical.features)
           /\ SameEntries(breaking_changes, Canonical.breaking_changes)

C14_Witness ==
    /\ pc = "done"
    /\ driver = "build_change_log"
    /\ Len(features) >= 2
    /\ breaking_changes # <<>>
    /\ features # Canonical.features

\* the step appended nothing, or one entry to one of the two lists
AtMostOneEntry ==
    \/ features' = features /\ breaking_changes' = breaking_changes
    \/ Len(features') = Len(features) + 1 /\ breaking_changes' = breaking_changes
    \/ features' = features /\ Len(breaking_changes') = Len(breaking_changes) + 1

\* the edit ends at the function listing of an operation group and is handed
\* to ChangeLog.operation
ManualListing(e) ==
    driver = "handlers" /\ Len(e[1]) = 3 /\ e[1][1] = "operations"

(* C15, as stated: processing one edit, through build_change_log's dispatch  *)
(* or through ChangeLog.operation or ChangeLog.models, grows                 *)
(* len(features) + len(breaking_changes) by at most one and never appends    *)
(* to both lists.                                                            *)
C15_AsStated == [][ Handled => AtMostOneEntry ]_vars

(* C15, amended: processing one edit appends at most one entry, to one list, *)
(* except an edit that ends at the function listing of an operation group:   *)
(* ChangeLog.operation appends one breaking entry per function name only in  *)
(* the old listing and one feature entry per name only in the new one.       *)
C15_AtMostOneEntry ==
    [][ Handled
        => IF ManualListing(diff_line')
           THEN pc' = "loop"
                  => LET G == diff_line'[1][2] IN
                     /\ Len(features') = Len(features)
                           + Cardinality(OpsOf(new_report, G) \ OpsOf(old_report, G))
                     /\ Len(breaking_changes') = Len(breaking_changes)
                           + Cardinality(OpsOf(old_report, G) \ OpsOf(new_report, G))
           ELSE AtMostOneEntry ]_vars

C15_Witness ==
    /\ driver = "handlers"
    /\ pc = "done"
    /\ diff_line = << <<"operations", "Gadgets">> >>
    /\ Len(features) + Len(breaking_changes) = 1

\* the entries as bullets, one after the other
RECURSIVE Listed(_)
Listed(entries) ==
    IF entries = <<>> THEN <<>>
    ELSE <<"- ">> \o Head(entries) \o Listed(Tail(entries))

\* the piece is neither a line break nor a heading
IsContent(piece) == piece \notin {"\n", "**Features**", "**Breaking changes**"}

\* where the piece first occurs in the text, Len(text) + 1 when it does not
Position(text, piece) ==
    IF \E i \in DOMAIN text : text[i] = piece
    THEN CHOOSE i \in DOMAIN text :
            text[i] = piece /\ \A j \in 1..(i - 1) : text[j] # piece
    ELSE Len(text) + 1

(* C16: build_md renders the features before the breaking changes, each      *)
(* accumulated entry exactly once as a "- " bullet in accumulation order,    *)
(* with the heading of a list only when the list is not empty, and returns   *)
(* a text without trailing whitespace, the empty string when both lists are  *)
(* empty.                                                                    *)
C16_RenderedMarkdown ==
    pc = "printed"
        => LET k == Position(md, "**Breaking changes**") IN
           /\ SelectSeq(SubSeq(md, 1, k - 1), IsContent) = Listed(features)
           /\ SelectSeq(SubSeq(md, k, Len(md)), IsContent) = Listed(breaking_changes)
           /\ Count(md, "**Features**") = (IF features = <<>> THEN 0 ELSE 1)
           /\ Count(md, "**Breaking changes**")
                 = (IF breaking_changes = <<>> THEN 0 ELSE 1)
           /\ features # <<>> => md[1] = "**Features**"
           /\ md # <<>> => md[Len(md)] \notin {"\n", " ", ""}
           /\ (features = <<>> /\ breaking_changes = <<>>) => md = <<>>

C16_Witness ==
    /\ pc = "printed"
    /\ Len(features) >= 2
    /\ breaking_changes # <<>>
    /\ md # <<>>

\* the edit adds, removes or replaces as a whole the operations or models
\* grouping of a Report, or the methods or attributes container of a class
ContainerEdit(e) ==
    LET p == e[1] IN
    /\ p # <<>>
    /\ \/ Len(p) <= 2 /\ p[Len(p)] \in {"operations", "models"}
       \/ Len(p) >= 3 /\ p[Len(p)] \in {"methods", "attributes"}
             /\ p[Len(p) - 2] = "classes"

\* the entry is one of the generic signature-changed messages
SignatureChanged(message) ==
    message[Len(message)] \in {" has a new signature", " has a different signature."}

(* C17: when the shapes of the two Reports differ (the operations or models  *)
(* grouping, or the methods or attributes container of a class, is in one    *)
(* Report only or was replaced as a whole), classifying the resulting edit   *)
(* raises nothing and at worst appends a generic signature-changed entry.    *)
C17_ShapeMismatchDegrades ==
    [][ (Handled /\ ContainerEdit(diff_line'))
        => /\ pc' = "loop"
           /\ features' = features
           /\ \/ breaking_changes' = breaking_changes
              \/ /\ Len(breaking_changes') = Len(breaking_changes) + 1
                 /\ SignatureChanged(breaking_changes'[Len(breaking_changes')]) ]_vars

\* the document an operand stands for, given the members of the module
Persisted(operand, version) ==
    LET report == report_of_module(Dir(version, 1), ModuleName).report IN
    IF operand = <<"report.json">> THEN Dict(ModuleName :> report) ELSE report

(* C18: get_report_from_parameter returns the loaded Report for every        *)
(* accepted form of operand: a file path, <package>:<literal version>,       *)
(* <package>:latest and <package>:pypi, for a package of one module whose    *)
(* extraction succeeds.                                                      *)
C18_EveryOperandFormLoads ==
    /\ error \notin {"ValueError", "NotImplementedError"}
    /\ pc \in {"base", "start"} => old_report = Persisted(argv[1], package[1])
    /\ pc = "start" => new_report = Persisted(argv[2], package[2])

\* the category create_report is to record a member of that kind in
Category(kind) ==
    CASE kind = "function" -> "functions"
      [] kind = "exception" -> "exceptions"
      [] kind = "class" -> "classes"
      [] OTHER -> "others"

\* the categories of the Report that record the member, under the name it is
\* bound to or under its own name
RecordedIn(report, item) ==
    {category \in {"functions", "classes", "exceptions", "others"} :
        KeysAt(report, <<category>>) \cap {item.name, item.__name__} # {}}

(* C19: create_report records every public member of the module that is not  *)
(* a module in exactly one category, chosen by its kind: functions for a     *)
(* plain function, exceptions for a subclass of the base exception type,     *)
(* classes for any other class, others for anything else; private members    *)
(* and sub-modules are recorded nowhere.                                     *)
C19_MembersByKind ==
    pc \in {"base", "start"}
        => \A i \in DOMAIN Members :
              package[1][i] # "absent"
                 => LET item == Members[i]
                        where == RecordedIn(ReportOf(old_report), item)
                    IN IF startswith_underscore(item.name) \/ item.kind = "module"
                       THEN where = {}
                       ELSE where = {Category(item.kind)}

\* the member comes from another module than the one under inspection
Imported(item) ==
    /\ item.kind \in {"function", "class", "exception"}
    /\ item.origin \notin {"", ModuleName}

\* the two versions have the same members and differ at most in the
\* signatures of imported ones
SignaturesOfImportedOnly(v, w) ==
    \A i \in DOMAIN Members :
        /\ (v[i] = "absent") = (w[i] = "absent")
        /\ v[i] # w[i] => Imported(Members[i])

(* C20: a function, class or exception that comes from another module is     *)
(* recorded as an imported annotation, with its type and its source module   *)
(* and without parameters, methods, attributes or base classes; two versions *)
(* that differ only in the signatures of such members give the same Report,  *)
(* hence no edit and no changelog entry.                                     *)
C20_ImportedAnnotation ==
    /\ pc \in {"base", "start"}
          => \A i \in DOMAIN Members :
                (package[1][i] # "absent" /\ Imported(Members[i]))
                   => LET item == Members[i]
                          keys == KeysAt(ReportOf(old_report),
                                         <<Category(item.kind), item.__name__>>)
                      IN /\ {"type", "source"} \subseteq keys
                         /\ keys \cap {"parameters", "methods", "attributes",
                                       "baseclasses"} = {}
                         /\ GetPath(ReportOf(old_report),
                                    <<Category(item.kind), item.__name__, "source">>)
                               = Str(item.origin)
    /\ (/\ pc \in {"start", "loop", "done", "printed", "raised"}
        /\ error \notin {"ValueError", "NotImplementedError"}
        /\ (argv[1] = <<"report.json">>) = (argv[2] = <<"report.json">>)
        /\ SignaturesOfImportedOnly(package[1], package[2]))
          => /\ old_report = new_report
             /\ pc # "raised"
             /\ features = <<>>
             /\ breaking_changes = <<>>

C20_Witness ==
    /\ pc = "done"
    /\ argv = << <<"report.json">>, <<"report.json">> >>
    /\ package[1] # package[2]
    /\ SignaturesOfImportedOnly(package[1], package[2])
    /\ features = <<>>
    /\ breaking_changes = <<>>

\* the entry says that a function, a class or a method is new
SaysIsNew(message) ==
    /\ message[1] \in {"Function ", "Class ", "Method "}
    /\ message[Len(message)] = " is new."

(* C27: every "is new" feature entry that build_change_log emits for a       *)
(* function, a class or a method comes from an edit whose path is absent     *)
(* from the old Report and present in the new one; a deletion, or an edit    *)
(* of an item of both Reports, never yields an "is new" entry.               *)
C27_IsNewMeansAdded ==
    [][ (driver = "build_change_log" /\ Handled /\ Len(features') > Len(features)
            /\ SaysIsNew(features'[Len(features')]))
        => /\ Len(diff_line') = 2
           /\ ~HasPath(old_report, diff_line'[1])
           /\ HasPath(new_report, diff_line'[1]) ]_vars

-----------------------------------------------------------------------------
(* Vocabulary of the properties of the extractor.                           *)

\* the members of the module create_report is called on
Extracted == environment[Text(CoreModule)].members

\* the texts a list holds
Items(doc, p) == {Val(GetPath(doc, Append(p, k))) : k \in KeysAt(doc, p)}

\* the classes of the Report that create_report_from_class walked
ClassReports(report) ==
    {C \in KeysAt(report, <<"classes">>) : "methods" \in KeysAt(report, <<"classes", C>>)}

(* C21: in every report that create_report_from_class builds for a class     *)
(* that is not an exception, methods has the key __init__, wherever the      *)
(* constructor comes from and whether or not its signature can be read, and  *)
(* no other name that starts with the private marker is among the attributes *)
(* or the methods.                                                           *)
C21_ConstructorAlwaysReported ==
    (driver = "create_report" /\ pc = "returned")
        => \A C \in ClassReports(returned) :
              /\ "__init__" \in KeysAt(returned, <<"classes", C, "methods">>)
              /\ \A k \in KeysAt(returned, <<"classes", C, "methods">>)
                            \cup Items(returned, <<"classes", C, "attributes">>) :
                    startswith_underscore(k) => k = "__init__"

\* the member is a function of the module that create_report_from_func is
\* called on
LocalFunction(item) ==
    /\ item.kind = "function"
    /\ ~startswith_underscore(item.name)
    /\ ~startswith_underscore(item.__name__)
    /\ item.origin = ModuleName

\* the member is a class of the module that create_report_from_class walks
LocalClass(item) ==
    /\ item.kind = "class"
    /\ ~startswith_underscore(item.name)
    /\ item.origin = ModuleName

\* the member of a class is one whose signature the extractor asks for
Inspected(op_attr) ==
    /\ op_attr.kind \in {"function", "wrapper"}
    /\ (startswith_underscore(op_attr.name) => op_attr.name = "__init__")

\* where the Report is to record the members whose signature cannot be read
UnreadablePaths(members) ==
    {<<"functions", members[i].__name__>> :
        i \in {j \in DOMAIN members :
                  LocalFunction(members[j]) /\ members[j].signature.raises}}
      \cup UNION {
             {<<"classes", members[i].__name__, "methods", members[i].dir[k].name>> :
                 k \in {l \in DOMAIN members[i].dir :
                           /\ Inspected(members[i].dir[l])
                           /\ members[i].dir[l].signature.raises}} :
             i \in {j \in DOMAIN members : LocalClass(members[j])}}

\* the object, every signature of it readable
Readable(item) ==
    [item EXCEPT
        !.signature = IF @.raises THEN Positional(1) ELSE @,
        !.dir = [k \in DOMAIN @ |->
                    IF @[k].signature.raises /\ Inspected(@[k])
                    THEN [@[k] EXCEPT !.signature = Positional(1)]
                    ELSE @[k]]]

(* C22: when the signature of a member (a function of the module, a member   *)
(* of a class) cannot be read, create_report does not raise for it, records  *)
(* the empty signature for that member and records every other member as it *)
(* does when the signature can be read.                                      *)
C22_UnreadableSignatureIsEmpty ==
    (driver = "create_report" /\ pc # "call" /\ environment # NoSite)
        => /\ error # "ValueError"
           /\ pc = "returned"
                 => /\ \A p \in UnreadablePaths(Extracted) :
                          /\ HasPath(returned, p)
                          /\ GetPath(returned, p) = Dict(<<>>)
                    /\ LET readable ==
                               report_of_module(
                                   [i \in DOMAIN Extracted |-> Readable(Extracted[i])],
                                   ModuleName).report
                       IN \A n \in (returned \ readable) \cup (readable \ returned) :
                             \E p \in UnreadablePaths(Extracted) :
                                /\ Len(n[1]) >= Len(p)
                                /\ SubSeq(n[1], 1, Len(p)) = p

(* C23: format_for_report returns a value for every input and never raises;  *)
(* for a mapping or a list that cannot be serialized it returns the string   *)
(* form of the value.                                                        *)
C23_FormatterIsTotal ==
    driver = "format_for_report"
        => /\ pc # "raised"
           /\ (/\ pc = "returned"
               /\ arguments.item.kind = "constant"
               /\ arguments.item.value.container
               /\ ~arguments.item.value.serializable)
                 => returned = Str(Text(arguments.item.value.repr))

\* the module exposes the sub-namespace
Exposes(members, name) ==
    \E i \in DOMAIN members : members[i].name = name /\ members[i].kind = "module"

(* C24: for a module that exposes the operations and the models              *)
(* sub-namespaces the Report of create_report has an operations and a models *)
(* grouping; for a module that lacks one of them create_report does not fail *)
(* for it and the grouping has no entry.                                     *)
C24_OperationsAndModelsGroupings ==
    (driver = "create_report" /\ pc # "call" /\ environment # NoSite)
        => /\ error \notin {"AttributeError", "KeyError"}
           /\ pc = "returned"
                 => \A grouping \in {"operations", "models"} :
                       IF Exposes(Extracted, grouping)
                       THEN grouping \in Keys(returned)
                       ELSE KeysAt(returned, <<grouping>>) = {}

\* main takes the branch that extracts in the process
InProcess ==
    ~((arguments.version # "" \/ arguments.pypi \/ arguments.last_pypi)
      /\ ~arguments.no_venv)

\* the modules main enumerates
Enumerated ==
    find_all_core_modules(environment.site,
                          parse_input(arguments.input_parameter)[2]).result

\* names.join(sep), for a list of texts
RECURSIVE Joined(_, _)
Joined(names, sep) ==
    IF names = <<>> THEN ""
    ELSE IF Len(names) = 1 THEN Text(names[1])
    ELSE Text(names[1]) \o sep \o Joined(Tail(names), sep)

\* the file of a module: the components of its name beyond those of the
\* package, or __init__
FileOf(module_name) ==
    LET components == split(module_name, ".")
        beyond == SubSeq(components, Len(split(PackageName, "-")) + 1, Len(components))
    IN << Joined(split(PackageName, "-"), "-"), "code_reports",
          IF arguments.version # "" THEN arguments.version ELSE "latest",
          (IF beyond = <<>> THEN "__init__" ELSE Joined(beyond, ".")) \o ".json" >>

AggregateFile ==
    << Joined(split(PackageName, "-"), "-"), "code_reports",
       IF arguments.version # "" THEN arguments.version ELSE "latest", "report.json" >>

(* C25: main extracting in the process, over the modules it enumerates:      *)
(* without the aggregate flag it writes one file per module, at              *)
(* <package>/code_reports/<version>/<suffix or __init__>.json, distinct      *)
(* modules at distinct paths, and returns one path per module; with the flag *)
(* it writes only <package>/code_reports/<version>/report.json, with one     *)
(* entry per module, and returns that path alone.                            *)
C25_OneFilePerModule ==
    (driver = "main" /\ pc = "returned" /\ InProcess)
        => /\ ~returned.none
           /\ IF ~arguments.aggregate
              THEN /\ returned.result = [i \in DOMAIN Enumerated |-> FileOf(Enumerated[i])]
                   /\ DOMAIN disk = {FileOf(Enumerated[i]) : i \in DOMAIN Enumerated}
                   /\ Cardinality(DOMAIN disk) = Len(Enumerated)
                   /\ \A i \in DOMAIN Enumerated :
                         disk[FileOf(Enumerated[i])]
                            = create_report(environment.site, Enumerated[i]).report
              ELSE /\ returned.result = <<AggregateFile>>
                   /\ DOMAIN disk = {AggregateFile}
                   /\ Keys(disk[AggregateFile])
                         = {Text(Enumerated[i]) : i \in DOMAIN Enumerated}
                   /\ Cardinality(Keys(disk[AggregateFile])) = Len(Enumerated)

C25_Witness ==
    /\ driver = "main"
    /\ pc = "returned"
    /\ InProcess
    /\ ~arguments.aggregate
    /\ arguments.version = "2.0.0"
    /\ Len(returned.result) = 4
    /\ FileOf(CoreModule \o <<".", "commands", ".", "arm">>) \in DOMAIN disk

\* the modules a site of the model can hold
ModuleNames ==
    { CoreModule, CoreModule \o <<".", "util">>, CoreModule \o <<".", "commands">>,
      CoreModule \o <<".", "commands", ".", "arm">> }

\* extraction over the site cannot locate or import a module
Unresolved(site) ==
    in_process(site, parse_input(arguments.input_parameter)[1],
               parse_input(arguments.input_parameter)[2], "", TRUE).error
        \in {"ModuleNotFoundError", "ImportError", "AttributeError"}

\* the versions main extracts in an environment of their own
VersionsRun ==
    IF arguments.version # "" THEN {arguments.version}
    ELSE IF arguments.last_pypi THEN {PyPI[Len(PyPI)]}
    ELSE {PyPI[i] : i \in DOMAIN PyPI}

(* C26: whenever a module, a package or a version cannot be located or       *)
(* imported during the extraction, in the process or in the run of a         *)
(* version, main raises to its caller, and no file has been written for the  *)
(* module that failed.                                                       *)
C26_ResolutionErrorsSurface ==
    (driver = "main" /\ pc # "call")
        => IF InProcess
           THEN Unresolved(environment.site)
                   => /\ pc = "raised"
                      /\ \A m \in ModuleNames :
                            import_module(environment.site, m).error # "none"
                               => FileOf(m) \notin DOMAIN disk
           ELSE (\E v \in VersionsRun : Unresolved(environment.index[v]))
                   => pc = "raised"

(* C28: in every Report of create_report the keys of functions, classes,     *)
(* exceptions and others are together the names of the public members of the *)
(* module that are not modules: two public names bound to one object give    *)
(* two entries, and no key starts with the private marker.                   *)
C28_KeysAreMemberNames ==
    (driver = "create_report" /\ pc = "returned")
        => LET keys == UNION {KeysAt(returned, <<category>>) :
                                 category \in {"functions", "classes", "exceptions",
                                               "others"}}
           IN /\ keys = {Extracted[i].name :
                            i \in {j \in DOMAIN Extracted :
                                      /\ ~startswith_underscore(Extracted[j].name)
                                      /\ Extracted[j].kind # "module"}}
              /\ \A k \in keys : ~startswith_underscore(k)

====
